---------------------------- MODULE Spec2Model ----------------------------
(***************************************************************************)
(* Model of the open-queries report backend (aza-open-queries).            *)
(*                                                                         *)
(* The repository holds three generations of api/backend.js:               *)
(*   "v1"     src/api/backend.js            Policy B, parseCsv loader,     *)
(*                                          enrichAndSummarize (no sort)   *)
(*   "file"   src/unnamed/part_000:1-276    Policy B, parseCsvRobust       *)
(*                                          loader, summarizeRows + sort   *)
(*   "upload" src/unnamed/part_000:278-483  Policy A, mapping uploaded in  *)
(*                                          the request body               *)
(*                                                                         *)
(* Text is modelled as a sequence of one-character strings, so that the    *)
(* regular expressions, the CSV parsers and the fuzzy name match are       *)
(* computed character by character as the code computes them.  "BOM" is    *)
(* the single code unit U+FEFF.  An instant is [valid, t]: t is            *)
(* milliseconds since 2024-10-01T00:00:00.000+05:30, valid = FALSE is the  *)
(* Invalid Date (NaN).                                                     *)
(***************************************************************************)
EXTENDS Integers, Sequences, FiniteSets, TLC

VARIABLES
    variant,          \* which generation of backend.js is deployed
    serverTz,         \* the server's local time zone, minutes east of UTC
    dataDir,          \* the data directory the process sees
    PID_MAP,          \* module-level mapping (file generations)
    MAPPING_READY,    \* module-level memoised promise, 0 = null
    loadCount,        \* times the body of the mapping load has run
    pc,               \* per invocation: "idle", "awaiting", "done"
    observed,         \* per invocation: identity of PID_MAP seen after the await
    req,              \* request body of the latest completed invocation
    msgs,             \* messages retained by its chat parsing
    timelines,        \* its buildPidTimelines result
    rows,             \* its report rows
    response,         \* what it sent
    csv,              \* the CSV text rendered from a row set
    parsed,           \* the rows parseCsvRobust reads back from csv
    body,             \* a message body handed to extractPids
    found             \* the PIDs extractPids returned for body

vars == << variant, serverTz, dataDir, PID_MAP, MAPPING_READY, loadCount, pc,
           observed, req, msgs, timelines, rows, response, csv, parsed,
           body, found >>

(***************************************************************************)
(* Characters and strings                                                  *)
(***************************************************************************)
DigitChars == {"0", "1", "2", "3", "4", "5", "6", "7", "8", "9"}

UpperLetters == << "A", "B", "C", "D", "E", "F", "G", "H", "I", "J", "K", "L", "M",
                   "N", "O", "P", "Q", "R", "S", "T", "U", "V", "W", "X", "Y", "Z" >>

LowerLetters == << "a", "b", "c", "d", "e", "f", "g", "h", "i", "j", "k", "l", "m",
                   "n", "o", "p", "q", "r", "s", "t", "u", "v", "w", "x", "y", "z" >>

IsDigit(c) == c \in DigitChars

IsUpper(c) == \E i \in 1..Len(UpperLetters) : UpperLetters[i] = c

IsLetter(c) == \E i \in 1..Len(UpperLetters) : UpperLetters[i] = c \/ LowerLetters[i] = c

\* \w of a JavaScript regular expression
IsWordChar(c) == IsDigit(c) \/ IsLetter(c) \/ c = "_"

\* \s of a JavaScript regular expression (and the white space trim() removes)
IsSpace(c) == c \in {" ", "\t", "\n", "\r", "BOM"}

LowerChar(c) ==
    IF IsUpper(c)
    THEN LowerLetters[CHOOSE i \in 1..Len(UpperLetters) : UpperLetters[i] = c]
    ELSE c

toLowerCase(s) == [i \in 1..Len(s) |-> LowerChar(s[i])]

StartsAt(s, sub, i) ==
    /\ i >= 1
    /\ i + Len(sub) - 1 <= Len(s)
    /\ \A k \in 1..Len(sub) : s[i + k - 1] = sub[k]

\* String.prototype.includes
includes(s, sub) == \E i \in 1..(Len(s) - Len(sub) + 1) : StartsAt(s, sub, i)

RECURSIVE SkipSpaces(_, _)
\* index of the first character at or after i that is not white space
SkipSpaces(s, i) ==
    IF i <= Len(s) /\ IsSpace(s[i]) THEN SkipSpaces(s, i + 1) ELSE i

RECURSIVE SkipSpacesBack(_, _)
SkipSpacesBack(s, j) ==
    IF j >= 1 /\ IsSpace(s[j]) THEN SkipSpacesBack(s, j - 1) ELSE j

\* String.prototype.trim
trim(s) ==
    LET a == SkipSpaces(s, 1)
        b == SkipSpacesBack(s, Len(s))
    IN  IF a > b THEN << >> ELSE SubSeq(s, a, b)

\* String.prototype.slice(0, n)
slice0(s, n) == IF Len(s) <= n THEN s ELSE SubSeq(s, 1, n)

PreviewLen == 160

(***************************************************************************)
(* extractPids: the global, case-insensitive regex "word boundary, an      *)
(* optional pid label with separator, six digits, word boundary", run by   *)
(* an exec loop that adds capture 1 to a Set                               *)
(***************************************************************************)
PidDigits == 6

S_pid == << "p", "i", "d" >>

WordAt(t, i) == i >= 1 /\ i <= Len(t) /\ IsWordChar(t[i])

\* a variant of Boundary that holds at every index
BoundaryAnywhere(t, i) == TRUE

\* \b between t[i-1] and t[i]
Boundary(t, i) == WordAt(t, i - 1) # WordAt(t, i)

DigitsAt(t, q) ==
    /\ q >= 1
    /\ q + PidDigits - 1 <= Len(t)
    /\ \A k \in 0..(PidDigits - 1) : IsDigit(t[q + k])

\* end of the optional label group (pid, spaces, one of ":" "-", spaces)
\* matched at p: the index after it, 0 when the label is absent
PidLabelEnd(t, p) ==
    IF p + Len(S_pid) - 1 <= Len(t) /\ toLowerCase(SubSeq(t, p, p + Len(S_pid) - 1)) = S_pid
    THEN LET a == SkipSpaces(t, p + Len(S_pid))
             b == IF a <= Len(t) /\ t[a] \in {":", "-"} THEN a + 1 ELSE a
         IN  SkipSpaces(t, b)
    ELSE 0

\* the regex tried at p: index where the captured digits start, 0 for no match
PidMatchAt(t, p) ==
    IF ~Boundary(t, p) THEN 0
    ELSE LET q == PidLabelEnd(t, p)
         IN  IF q # 0 /\ DigitsAt(t, q) /\ Boundary(t, q + PidDigits) THEN q
             ELSE IF DigitsAt(t, p) /\ Boundary(t, p + PidDigits) THEN p
             ELSE 0

RECURSIVE PidExecLoop(_, _, _)
PidExecLoop(t, i, out) ==
    IF i > Len(t) THEN out
    ELSE LET q == PidMatchAt(t, i)
         IN  IF q = 0 THEN PidExecLoop(t, i + 1, out)
             ELSE LET pid == SubSeq(t, q, q + PidDigits - 1)
                  IN  PidExecLoop(t, q + PidDigits,
                          IF \E k \in 1..Len(out) : out[k] = pid
                          THEN out ELSE Append(out, pid))

extractPids(text) == PidExecLoop(text, 1, << >>)

(***************************************************************************)
(* isLikelyCsMessage                                                       *)
(***************************************************************************)
Cues == <<
  <<"?">>,
  <<"a", "n", "y", " ", "u", "p", "d", "a", "t", "e">>,
  <<"p", "l", "e", "a", "s", "e", " ", "u", "p", "d", "a", "t", "e">>,
  <<"p", "l", "s", " ", "u", "p", "d", "a", "t", "e">>,
  <<"n", "e", "e", "d">>,
  <<"p", "o", "s", "s", "i", "b", "l", "e">>,
  <<"p", "r", "i", "c", "e">>,
  <<"l", "e", "a", "d", " ", "t", "i", "m", "e">>,
  <<"c", "a", "n", " ", "w", "e">>,
  <<"p", "l", "e", "a", "s", "e", " ", "c", "o", "n", "f", "i", "r", "m">>,
  <<"p", "l", "s", " ", "c", "o", "n", "f", "i", "r", "m">>,
  <<"u", "p", "d", "a", "t", "e", "?">>,
  <<"a", "n", "y", " ", "u", "p", "d", "a", "t", "e", "s">>,
  <<"s", "t", "a", "t", "u", "s">>,
  <<"d", "i", "s", "p", "a", "t", "c", "h">>,
  <<"d", "e", "l", "i", "v", "e", "r">>,
  <<"p", "h", "o", "t", "o">>,
  <<"v", "i", "d", "e", "o">>,
  <<"i", "m", "a", "g", "e", "s">>,
  <<"m", "a", "t", "e", "r", "i", "a", "l">>,
  <<"s", "i", "z", "e">>,
  <<"t", "i", "m", "e", "l", "i", "n", "e">> >>

\* the regex "question mark, optional white space, end of text"
EndsWithQuestion(t) ==
    LET j == SkipSpacesBack(t, Len(t)) IN j >= 1 /\ t[j] = "?"

isLikelyCsMessage(text) ==
    LET t == toLowerCase(text)
    IN  (\E k \in 1..Len(Cues) : includes(t, Cues[k])) \/ EndsWithQuestion(t)

(***************************************************************************)
(* senderMatchesMerch (normName inlined in the later generations)          *)
(***************************************************************************)
RECURSIVE CollapseSpaces(_, _)
\* replace(white-space runs, ' ') from index i on
CollapseSpaces(s, i) ==
    IF i > Len(s) THEN << >>
    ELSE IF IsSpace(s[i]) THEN << " " >> \o CollapseSpaces(s, SkipSpaces(s, i))
    ELSE << s[i] >> \o CollapseSpaces(s, i + 1)

\* removes every character that is not a letter, a number or white space
StripPunct(s) == SelectSeq(s, LAMBDA c : IsLetter(c) \/ IsDigit(c) \/ IsSpace(c))

normName(s) == trim(StripPunct(CollapseSpaces(toLowerCase(s), 1)))

RECURSIVE SplitOn(_, _, _)
\* String.prototype.split(sep) for a one-character separator, from index i
\* with the piece cur under construction
SplitOn(s, sep, acc) ==
    IF s = << >> THEN << acc >>
    ELSE IF Head(s) = sep THEN << acc >> \o SplitOn(Tail(s), sep, << >>)
    ELSE SplitOn(Tail(s), sep, Append(acc, Head(s)))

\* split(' ').filter(Boolean)
NameTokens(m) == SelectSeq(SplitOn(m, " ", << >>), LAMBDA x : x # << >>)

MatchPercent == 60

\* Math.max(1, Math.ceil(n * 0.6))
TokenThreshold(n) ==
    LET c == (n * MatchPercent + 99) \div 100 IN IF c < 1 THEN 1 ELSE c

senderMatchesMerch(sender, merchName) ==
    LET s == normName(sender)
        m == normName(merchName)
        toks == NameTokens(m)
        hit == Len(SelectSeq(toks, LAMBDA x : includes(s, x)))
    IN  IF s = << >> \/ m = << >> THEN FALSE
        ELSE IF includes(s, m) \/ includes(m, s) THEN TRUE
        ELSE hit >= TokenThreshold(Len(toks))

(***************************************************************************)
(* Instants.  new Date(iso) with an explicit +05:30 offset, and the local  *)
(* getters of Date that fmtIst reads.                                      *)
(***************************************************************************)
MsPerMinute == 60 * 1000

MinutesPerDay == 24 * 60

IstOffsetMinutes == 5 * 60 + 30

\* days since 1970-01-01 of a civil date (proleptic Gregorian calendar)
DaysFromCivil(y, m, d) ==
    LET yy  == IF m <= 2 THEN y - 1 ELSE y
        era == yy \div 400
        yoe == yy - era * 400
        mp  == IF m > 2 THEN m - 3 ELSE m + 9
        doy == (153 * mp + 2) \div 5 + d - 1
        doe == yoe * 365 + yoe \div 4 - yoe \div 100 + doy
    IN  era * 146097 + doe - 719468

\* the civil date <<y, m, d>> of a day number
CivilFromDays(days) ==
    LET z   == days + 719468
        era == z \div 146097
        doe == z - era * 146097
        yoe == (doe - doe \div 1460 + doe \div 36524 - doe \div 146096) \div 365
        doy == doe - (365 * yoe + yoe \div 4 - yoe \div 100)
        mp  == (5 * doy + 2) \div 153
        d   == doy - (153 * mp + 2) \div 5 + 1
        m   == IF mp < 10 THEN mp + 3 ELSE mp - 9
        y   == yoe + era * 400 + (IF m <= 2 THEN 1 ELSE 0)
    IN  << y, m, d >>

\* day number of the origin of the model's millisecond axis, 2024-10-01
EpochDay == DaysFromCivil(2024, 10, 1)

InvalidDate == [valid |-> FALSE, t |-> 0]

\* new Date("YYYY-MM-DDTHH:MM:00.000+05:30") from the numeric fields of the
\* string; yearDigits is the number of digits the year was written with
DateFromIso(year, yearDigits, month, day, hour, minute) ==
    IF /\ yearDigits = 4
       /\ month \in 1..12
       /\ day \in 1..31
       /\ (hour \in 0..23 \/ (hour = 24 /\ minute = 0))
       /\ minute \in 0..59
    THEN [valid |-> TRUE,
          t |-> (((DaysFromCivil(year, month, day) - EpochDay) * MinutesPerDay)
                 + hour * 60 + minute) * MsPerMinute]
    ELSE InvalidDate

\* number of decimal digits of a non negative integer
RECURSIVE DigitCount(_)
DigitCount(n) == IF n < 10 THEN 1 ELSE 1 + DigitCount(n \div 10)

\* parseIstDate(d, m, y, hh, mm, ampm): the captures are digit strings, given
\* by value, with yLen the length of the year capture.  padYear tells whether
\* the generation pads the year to four digits.
parseIstDateOf(padYear, d, m, y, yLen, hh, mm, ampm) ==
    LET year   == IF yLen = 2 THEN y + 2000 ELSE y
        ap     == toLowerCase(ampm)
        hour   == IF ampm # << >> /\ ap = << "p", "m" >> /\ hh < 12 THEN hh + 12
                  ELSE IF ampm # << >> /\ ap = << "a", "m" >> /\ hh = 12 THEN 0
                  ELSE hh
        digits == IF padYear /\ DigitCount(year) < 4 THEN 4 ELSE DigitCount(year)
    IN  DateFromIso(year, digits, m, d, hour, mm)

\* a > b, a <= b and isNaN on Date objects (ToNumber, NaN compares false)
DateGt(a, b) == a.valid /\ b.valid /\ a.t > b.t

DateLe(a, b) == a.valid /\ b.valid /\ a.t <= b.t

\* fmtIst(dt): the string "YYYY-MM-DD HH:MM IST" as the tuple of its five
\* zero-padded fields, read with the local-time getters of the server
fmtIstAt(tz, t) ==
    LET localMin == t \div MsPerMinute + (tz - IstOffsetMinutes)
        day      == localMin \div MinutesPerDay
        rest     == localMin - day * MinutesPerDay
        ymd      == CivilFromDays(day + EpochDay)
    IN  << ymd[1], ymd[2], ymd[3], rest \div 60, rest % 60 >>

fmtIst(t) == fmtIstAt(serverTz, t)

\* a.localeCompare(b) < 0 for two rendered timestamps ('' is the empty tuple)
RECURSIVE TupleLess(_, _)
TupleLess(a, b) ==
    IF b = << >> THEN FALSE
    ELSE IF a = << >> THEN TRUE
    ELSE IF Head(a) # Head(b) THEN Head(a) < Head(b)
    ELSE TupleLess(Tail(a), Tail(b))

\* diffToHHMM(ms) as the tuple << hours, minutes >>
diffToHHMM(ms) ==
    LET totalMin == IF ms < 0 THEN 0 ELSE ms \div MsPerMinute
    IN  << totalMin \div 60, totalMin % 60 >>

(***************************************************************************)
(* Chat parsing.  A chat is the sequence of its lines (the result of the   *)
(* split on line ends); a line is given by the shape it has and the        *)
(* captures of the line regex: shape "android" matches RE_ANDROID and      *)
(* lineRegex, "ios" matches RE_IOS, "none" matches neither.                *)
(***************************************************************************)
LineTs(padYear, ln) ==
    parseIstDateOf(padYear, ln.d, ln.mo, ln.y, ln.yLen, ln.hh, ln.mm, ln.ampm)

MsgOf(padYear, chat, i) ==
    [ts |-> LineTs(padYear, chat[i]).t, sender |-> trim(chat[i].sender),
     text |-> trim(chat[i].text), line |-> i]

\* src/api/backend.js parseChat
KeepV1(ln, cutoff) ==
    /\ ln.shape = "android"
    /\ LineTs(TRUE, ln).valid
    /\ ~DateLe(LineTs(TRUE, ln), cutoff)

\* a variant of KeepLater that also keeps a message at the cutoff instant
KeepLaterOrAt(padYear, ln, cutoff) ==
    /\ ln.shape \in {"android", "ios"}
    /\ ~DateGt(cutoff, LineTs(padYear, ln))
    /\ LineTs(padYear, ln).valid

\* the parsing loop of the two later handlers
KeepLater(padYear, ln, cutoff) ==
    /\ ln.shape \in {"android", "ios"}
    /\ DateGt(LineTs(padYear, ln), cutoff)

RECURSIVE ParseFrom(_, _, _, _)
ParseFrom(v, chat, cutoff, i) ==
    IF i > Len(chat) THEN << >>
    ELSE LET keep == IF v = "v1" THEN KeepV1(chat[i], cutoff)
                     ELSE KeepLater(v = "file", chat[i], cutoff)
         IN  (IF keep THEN << MsgOf(v # "upload", chat, i) >> ELSE << >>)
             \o ParseFrom(v, chat, cutoff, i + 1)

parseChat(v, chat, cutoff) == ParseFrom(v, chat, cutoff, 1)

(***************************************************************************)
(* buildPidTimelines.  The Map is the sequence of its entries in insertion *)
(* order.                                                                  *)
(***************************************************************************)
IndexOfPid(tl, pid) ==
    IF \E k \in 1..Len(tl) : tl[k].pid = pid
    THEN CHOOSE k \in 1..Len(tl) : tl[k].pid = pid
    ELSE 0

\* map.get(pid).push(m), after map.set(pid, []) when the key is new
PushTo(tl, pid, m) ==
    LET k == IndexOfPid(tl, pid)
    IN  IF k = 0 THEN Append(tl, [pid |-> pid, messages |-> << m >>])
        ELSE [tl EXCEPT ![k].messages = Append(@, m)]

RECURSIVE PushAll(_, _, _)
PushAll(tl, pids, m) ==
    IF pids = << >> THEN tl ELSE PushAll(PushTo(tl, Head(pids), m), Tail(pids), m)

RECURSIVE GroupFrom(_, _, _)
GroupFrom(tl, ms, i) ==
    IF i > Len(ms) THEN tl
    ELSE GroupFrom(PushAll(tl, extractPids(ms[i].text), ms[i]), ms, i + 1)

\* a variant of InsertByTs that places x before the elements of its own ts
InsertByTsBeforeTies(sorted, x) ==
    LET n == Cardinality({k \in 1..Len(sorted) : sorted[k].ts < x.ts})
    IN  SubSeq(sorted, 1, n) \o << x >> \o SubSeq(sorted, n + 1, Len(sorted))

\* x placed after every element whose ts is not greater
InsertByTs(sorted, x) ==
    LET n == Cardinality({k \in 1..Len(sorted) : sorted[k].ts <= x.ts})
    IN  SubSeq(sorted, 1, n) \o << x >> \o SubSeq(sorted, n + 1, Len(sorted))

RECURSIVE SortFrom(_, _, _)
SortFrom(sorted, arr, i) ==
    IF i > Len(arr) THEN sorted ELSE SortFrom(InsertByTs(sorted, arr[i]), arr, i + 1)

\* arr.sort((a,b) => a.ts - b.ts): Array.prototype.sort is stable
sortByTs(arr) == SortFrom(<< >>, arr, 1)

buildPidTimelines(ms) ==
    LET grouped == GroupFrom(<< >>, ms, 1)
    IN  [k \in 1..Len(grouped) |->
            [pid |-> grouped[k].pid, messages |-> sortByTs(grouped[k].messages)]]

(***************************************************************************)
(* CSV rendering of the two later handlers.  A report row is rendered from *)
(* the strings of its columns, in the order of the headers.                *)
(***************************************************************************)
\* /[",\n]/.test(s)
needsQuotes(s) == \E k \in 1..Len(s) : s[k] \in {"\"", ",", "\n"}

RECURSIVE doubleQuotes(_)
\* s.replace(/"/g, '""')
doubleQuotes(s) ==
    IF s = << >> THEN << >>
    ELSE (IF Head(s) = "\"" THEN << "\"", "\"" >> ELSE << Head(s) >>) \o doubleQuotes(Tail(s))

escCsv(s) == IF needsQuotes(s) THEN << "\"" >> \o doubleQuotes(s) \o << "\"" >> ELSE s

RECURSIVE join(_, _)
\* Array.prototype.join
join(parts, sep) ==
    IF parts = << >> THEN << >>
    ELSE IF Len(parts) = 1 THEN parts[1]
    ELSE parts[1] \o sep \o join(Tail(parts), sep)

HeadersFile ==
    << <<"p", "i", "d">>,
       <<"d", "e", "s", "i", "g", "n", "e", "r">>,
       <<"a", "s", "s", "i", "g", "n", "e", "d", "_", "m", "e", "r", "c", "h">>,
       <<"s", "t", "a", "t", "u", "s">>,
       <<"l", "a", "t", "e", "s", "t", "_", "c", "s", "_", "p", "r", "e", "v", "i", "e", "w">>,
       <<"c", "s", "_", "t", "s", "_", "i", "s", "t">> >>

HeadersUpload ==
    << <<"p", "i", "d">>,
       <<"d", "e", "s", "i", "g", "n", "e", "r">>,
       <<"a", "s", "s", "i", "g", "n", "e", "d", "_", "m", "e", "r", "c", "h">>,
       <<"s", "t", "a", "t", "u", "s">>,
       <<"f", "i", "r", "s", "t", "_", "c", "s", "_", "p", "r", "e", "v", "i", "e", "w">>,
       <<"f", "i", "r", "s", "t", "_", "c", "s", "_", "t", "s", "_", "i", "s", "t">>,
       <<"l", "a", "t", "e", "s", "t", "_", "c", "s", "_", "p", "r", "e", "v", "i", "e", "w">>,
       <<"c", "s", "_", "t", "s", "_", "i", "s", "t">> >>

\* [headers.join(',')].concat(rows.map(r => headers.map(h => esc(r[h])).join(','))).join('\n')
toCsvText(headers, cellRows) ==
    join(<< join(headers, << "," >>) >>
         \o [k \in 1..Len(cellRows) |->
                join([c \in 1..Len(cellRows[k]) |-> escCsv(cellRows[k][c])], << "," >>)],
         << "\n" >>)

(***************************************************************************)
(* CSV parsing and the mapping loaders                                     *)
(***************************************************************************)
QUOTE == "\""

\* the state of the scanning loop of parseCsvRobust
CsvStart == [i |-> 1, field |-> << >>, row |-> << >>, rows |-> << >>, inQ |-> FALSE]

\* one iteration of the while loop of parseCsvRobust, file generation
csvStepFile(text, st) ==
    LET c == text[st.i]
    IN  IF st.inQ
        THEN IF c = QUOTE
             THEN IF st.i + 1 <= Len(text) /\ text[st.i + 1] = QUOTE
                  THEN [st EXCEPT !.field = Append(@, QUOTE), !.i = @ + 2]
                  ELSE [st EXCEPT !.inQ = FALSE, !.i = @ + 1]
             ELSE [st EXCEPT !.field = Append(@, c), !.i = @ + 1]
        ELSE IF c = QUOTE THEN [st EXCEPT !.inQ = TRUE, !.i = @ + 1]
        ELSE IF c = "," THEN [st EXCEPT !.row = Append(@, st.field), !.field = << >>, !.i = @ + 1]
        ELSE IF c = "\r" THEN [st EXCEPT !.i = @ + 1]
        ELSE IF c = "\n"
             THEN [st EXCEPT !.rows = Append(@, Append(st.row, st.field)),
                             !.row = << >>, !.field = << >>, !.i = @ + 1]
        ELSE [st EXCEPT !.field = Append(@, c), !.i = @ + 1]

\* one iteration of the while loop of parseCsvRobust, upload generation: a
\* comma pushes [...row, field] onto rows, as a line end does
csvStepUpload(text, st) ==
    LET c == text[st.i]
    IN  IF st.inQ
        THEN IF c = QUOTE
             THEN IF st.i + 1 <= Len(text) /\ text[st.i + 1] = QUOTE
                  THEN [st EXCEPT !.field = Append(@, QUOTE), !.i = @ + 2]
                  ELSE [st EXCEPT !.inQ = FALSE, !.i = @ + 1]
             ELSE [st EXCEPT !.field = Append(@, c), !.i = @ + 1]
        ELSE IF c = QUOTE THEN [st EXCEPT !.inQ = TRUE, !.i = @ + 1]
        ELSE IF c = ","
             THEN [st EXCEPT !.rows = Append(@, Append(st.row, st.field)),
                             !.row = << >>, !.field = << >>, !.i = @ + 1]
        ELSE IF c = "\r" THEN [st EXCEPT !.i = @ + 1]
        ELSE IF c = "\n"
             THEN [st EXCEPT !.rows = Append(@, Append(st.row, st.field)),
                             !.row = << >>, !.field = << >>, !.i = @ + 1]
        ELSE [st EXCEPT !.field = Append(@, c), !.i = @ + 1]

RECURSIVE CsvRun(_, _, _, _)
\* while (i < text.length): at most n iterations from st, halving n
CsvRun(upload, text, st, n) ==
    IF st.i > Len(text) THEN st
    ELSE IF n <= 1
         THEN IF upload THEN csvStepUpload(text, st) ELSE csvStepFile(text, st)
    ELSE CsvRun(upload, text, CsvRun(upload, text, st, n \div 2), n - n \div 2)

\* if (field.length || row.length) rows.push(...); return rows
CsvFinish(st) ==
    IF st.field # << >> \/ st.row # << >> THEN Append(st.rows, Append(st.row, st.field))
    ELSE st.rows

parseCsvRobustFile(text) == CsvFinish(CsvRun(FALSE, text, CsvStart, Len(text)))

stripBOM(s) == IF s # << >> /\ Head(s) = "BOM" THEN Tail(s) ELSE s

parseCsvRobustUpload(text) ==
    CsvFinish(CsvRun(TRUE, stripBOM(text), CsvStart, Len(stripBOM(text))))

H_pid == <<"p", "i", "d">>

H_product_id == <<"p", "r", "o", "d", "u", "c", "t", "_", "i", "d">>

H_productid == <<"p", "r", "o", "d", "u", "c", "t", "i", "d">>

H_designer_name == <<"d", "e", "s", "i", "g", "n", "e", "r", "_", "n", "a", "m", "e">>

H_designer == <<"d", "e", "s", "i", "g", "n", "e", "r">>

H_designername == <<"d", "e", "s", "i", "g", "n", "e", "r", "n", "a", "m", "e">>

H_merch_name == <<"m", "e", "r", "c", "h", "_", "n", "a", "m", "e">>

H_merch == <<"m", "e", "r", "c", "h">>

H_merchandiser == <<"m", "e", "r", "c", "h", "a", "n", "d", "i", "s", "e", "r">>

H_merchandisername == <<"m", "e", "r", "c", "h", "a", "n", "d", "i", "s", "e", "r", "n", "a", "m", "e">>

\* Array.prototype.indexOf, 0-based, -1 when absent
indexOf(arr, x) ==
    IF \E k \in 1..Len(arr) : arr[k] = x
    THEN (CHOOSE k \in 1..Len(arr) : arr[k] = x /\ \A j \in 1..(k - 1) : arr[j] # x) - 1
    ELSE -1

RECURSIVE FirstFound(_, _)
\* the chain  indexOf(a) !== -1 ? indexOf(a) : indexOf(b) !== -1 ? ... : indexOf(z)
FirstFound(header, names) ==
    IF Len(names) = 1 THEN indexOf(header, Head(names))
    ELSE IF indexOf(header, Head(names)) # -1 THEN indexOf(header, Head(names))
    ELSE FirstFound(header, Tail(names))

\* idx >= 0 ? (cols[idx] || '').toString().trim() : ''
CellAt(cols, idx) == IF idx >= 0 /\ idx + 1 <= Len(cols) THEN trim(cols[idx + 1]) ELSE << >>

RECURSIVE FirstPidFrom(_, _)
\* (raw.match of "word boundary, six digits, word boundary" || [])[1] || ''
FirstPidFrom(raw, p) ==
    IF p > Len(raw) THEN << >>
    ELSE IF Boundary(raw, p) /\ DigitsAt(raw, p) /\ Boundary(raw, p + PidDigits)
         THEN SubSeq(raw, p, p + PidDigits - 1)
    ELSE FirstPidFrom(raw, p + 1)

MapHas(map, pid) == \E k \in 1..Len(map) : map[k].pid = pid

\* pidMap.get(pid) || { designer: '', merch: '' }
MapGet(map, pid) ==
    IF MapHas(map, pid)
    THEN LET e == map[CHOOSE k \in 1..Len(map) : map[k].pid = pid]
         IN  [designer |-> e.designer, merch |-> e.merch]
    ELSE [designer |-> << >>, merch |-> << >>]

\* if (!map.has(pid)) map.set(pid, { designer, merch })
MapSetIfAbsent(map, pid, designer, merch) ==
    IF MapHas(map, pid) THEN map
    ELSE Append(map, [pid |-> pid, designer |-> designer, merch |-> merch])

RECURSIVE MapRowsFrom(_, _, _, _, _, _)
\* the data-row loop shared by both loadMappingFromCsvText
MapRowsFrom(rs, r, ip, id, im, map) ==
    IF r > Len(rs) THEN map
    ELSE LET pid == FirstPidFrom(CellAt(rs[r], ip), 1)
         IN  IF pid = << >> THEN MapRowsFrom(rs, r + 1, ip, id, im, map)
             ELSE MapRowsFrom(rs, r + 1, ip, id, im,
                      MapSetIfAbsent(map, pid, CellAt(rs[r], id), CellAt(rs[r], im)))

\* loadMappingFromCsvText of the file generation
loadMappingFromCsvTextFile(csvText) ==
    LET rs == parseCsvRobustFile(csvText)
    IN  IF rs = << >> THEN << >>
        ELSE LET header == [k \in 1..Len(rs[1]) |-> trim(toLowerCase(rs[1][k]))]
             IN  MapRowsFrom(rs, 2,
                     FirstFound(header, << H_pid, H_product_id >>),
                     FirstFound(header, << H_designer_name, H_designer >>),
                     FirstFound(header, << H_merch_name, H_merch, H_merchandiser >>),
                     << >>)

\* loadMappingFromCsvText of the upload generation
loadMappingFromCsvTextUpload(csvText) ==
    LET rs == parseCsvRobustUpload(csvText)
    IN  IF rs = << >> THEN << >>
        ELSE LET header == [k \in 1..Len(rs[1]) |-> trim(toLowerCase(stripBOM(rs[1][k])))]
             IN  MapRowsFrom(rs, 2,
                     FirstFound(header, << H_pid, H_product_id, H_productid >>),
                     FirstFound(header, << H_designer_name, H_designer, H_designername >>),
                     FirstFound(header, << H_merch_name, H_merch, H_merchandiser,
                                           H_merchandisername >>),
                     << >>)

(***************************************************************************)
(* The first generation: parseCsv and the row loop of loadMappingOnce      *)
(***************************************************************************)
RECURSIVE SplitLines(_, _)
\* content.split on CR? LF, with the piece acc under construction
SplitLines(s, acc) ==
    IF s = << >> THEN << acc >>
    ELSE IF Head(s) = "\n" THEN << acc >> \o SplitLines(Tail(s), << >>)
    ELSE IF Head(s) = "\r" /\ Len(s) >= 2 /\ s[2] = "\n"
         THEN << acc >> \o SplitLines(Tail(Tail(s)), << >>)
    ELSE SplitLines(Tail(s), Append(acc, Head(s)))

TrimAll(parts) == [k \in 1..Len(parts) |-> trim(parts[k])]

\* parseCsv: one object per data line, as the sequence of its (key, value)
\* assignments in header order
parseCsv(content) ==
    LET lines == SelectSeq(SplitLines(content, << >>), LAMBDA x : x # << >>)
    IN  IF lines = << >> THEN << >>
        ELSE LET header == TrimAll(SplitOn(lines[1], ",", << >>))
                 hd     == [k \in 1..Len(header) |-> toLowerCase(header[k])]
             IN  [i \in 1..(Len(lines) - 1) |->
                    LET parts == TrimAll(SplitOn(lines[i + 1], ",", << >>))
                    IN  [k \in 1..Len(hd) |->
                            [key |-> hd[k],
                             val |-> IF k <= Len(parts) THEN parts[k] ELSE << >>]]]

\* obj[key]: the last assignment wins; a missing key reads as '' under ||
Prop(obj, key) ==
    IF \E k \in 1..Len(obj) : obj[k].key = key
    THEN obj[CHOOSE k \in 1..Len(obj) :
                obj[k].key = key /\ \A j \in (k + 1)..Len(obj) : obj[j].key # key].val
    ELSE << >>

RECURSIVE OrChain(_, _)
\* r.a || r.b || ... || ''
OrChain(obj, keys) ==
    IF keys = << >> THEN << >>
    ELSE IF Prop(obj, Head(keys)) # << >> THEN Prop(obj, Head(keys))
    ELSE OrChain(obj, Tail(keys))

\* the test of "start, six digits, end"
IsExactPid(s) == Len(s) = PidDigits /\ \A k \in 1..Len(s) : IsDigit(s[k])

RECURSIVE MapObjsFrom(_, _, _)
MapObjsFrom(objs, r, map) ==
    IF r > Len(objs) THEN map
    ELSE LET pid == trim(OrChain(objs[r], << H_pid, H_product_id >>))
         IN  IF ~IsExactPid(pid) THEN MapObjsFrom(objs, r + 1, map)
             ELSE MapObjsFrom(objs, r + 1,
                      MapSetIfAbsent(map, pid,
                          trim(OrChain(objs[r], << H_designer_name, H_designer >>)),
                          trim(OrChain(objs[r], << H_merch_name, H_merch, H_merchandiser >>))))

loadMappingV1(csvText) == MapObjsFrom(parseCsv(csvText), 1, << >>)

(***************************************************************************)
(* The SLA.  A JavaScript number is [nan, v].  The slaMinutes of a request *)
(* body is [kind, v]: "absent" (undefined or null), "int" (a value         *)
(* parseInt reads as the integer v) or "nan" (a value parseInt turns into  *)
(* NaN: '', 'abc', {}).                                                    *)
(***************************************************************************)
NaN == [nan |-> TRUE, v |-> 0]

Num(n) == [nan |-> FALSE, v |-> n]

DefaultSlaA == 60

DefaultSlaB == 120

InnerDefaultSlaA == 60

\* Math.max(1, parseInt(slaMinutes ?? dflt, 10)) in the handlers
handlerSla(x, dflt) ==
    IF x.kind = "absent" THEN Num(IF dflt < 1 THEN 1 ELSE dflt)
    ELSE IF x.kind = "nan" THEN NaN
    ELSE Num(IF x.v < 1 THEN 1 ELSE x.v)

\* Math.max(1, parseInt(slaMinutes || 60, 10)) * 60 * 1000 in Policy A
slaMsA(sla) ==
    LET m == IF sla.nan \/ sla.v = 0 THEN InnerDefaultSlaA ELSE sla.v
    IN  (IF m < 1 THEN 1 ELSE m) * MsPerMinute

\* age > slaMinutes * 60 * 1000 in Policy B (false when slaMinutes is NaN)
exceedsSlaB(age, sla) == ~sla.nan /\ age > sla.v * MsPerMinute

(***************************************************************************)
(* Policy A: summarizeRows of the upload generation                        *)
(***************************************************************************)
\* the status the code writes with an em dash, spelled in ASCII
StatusBreached == "Open - Breached"

StatusOpen == "Open"

StatusClosed == "Closed"

replyTooLateAtSla(gap, slaMs) == gap >= slaMs

\* gap > slaMs
replyTooLate(gap, slaMs) == gap > slaMs

agedOutAtSla(age, slaMs) == age >= slaMs

\* age > slaMs
agedOut(age, slaMs) == age > slaMs

\* the if (next) ... else ... block: << include, status >>
\* a variant of classifyA that also includes the timelines it finds Open
classifyAKeepOpen(arr, now, slaMs) ==
    LET first == arr[1]
    IN  IF Len(arr) >= 2 /\ arr[2].sender # first.sender
        THEN IF replyTooLate(arr[2].ts - first.ts, slaMs)
             THEN << TRUE, StatusBreached >>
             ELSE << FALSE, StatusClosed >>
        ELSE IF agedOut(now - first.ts, slaMs)
             THEN << TRUE, StatusBreached >>
             ELSE << TRUE, StatusOpen >>

classifyA(arr, now, slaMs) ==
    LET first == arr[1]
    IN  IF Len(arr) >= 2
        THEN IF arr[2].sender # first.sender
             THEN IF replyTooLate(arr[2].ts - first.ts, slaMs)
                  THEN << TRUE, StatusBreached >>
                  ELSE << FALSE, StatusClosed >>
             ELSE IF agedOut(now - first.ts, slaMs)
                  THEN << TRUE, StatusBreached >>
                  ELSE << FALSE, StatusOpen >>
        ELSE IF agedOut(now - first.ts, slaMs)
             THEN << TRUE, StatusBreached >>
             ELSE << FALSE, StatusOpen >>

rowA(pidMap, pid, arr, status) ==
    LET meta == MapGet(pidMap, pid)
    IN  [pid |-> pid,
         designer |-> meta.designer,
         assigned_merch |-> meta.merch,
         status |-> status,
         first_cs_preview |-> slice0(arr[1].text, PreviewLen),
         first_cs_ts_ist |-> fmtIst(arr[1].ts),
         latest_cs_preview |-> slice0(arr[Len(arr)].text, PreviewLen),
         cs_ts_ist |-> fmtIst(arr[Len(arr)].ts)]

RECURSIVE RowsAFrom(_, _, _, _, _)
RowsAFrom(pidMap, tl, k, now, slaMs) ==
    IF k > Len(tl) THEN << >>
    ELSE LET arr == tl[k].messages
             c   == classifyA(arr, now, slaMs)
         IN  (IF arr # << >> /\ c[1] THEN << rowA(pidMap, tl[k].pid, arr, c[2]) >> ELSE << >>)
             \o RowsAFrom(pidMap, tl, k + 1, now, slaMs)

rankA(st) == IF st = StatusBreached THEN 0 ELSE 1

\* the comparator of Policy A is negative: a sorts before b
beforeA(a, b) ==
    \/ rankA(a.status) < rankA(b.status)
    \/ rankA(a.status) = rankA(b.status) /\ TupleLess(b.first_cs_ts_ist, a.first_cs_ts_ist)

InsertRowA(sorted, x) ==
    LET n == Cardinality({k \in 1..Len(sorted) : ~beforeA(x, sorted[k])})
    IN  SubSeq(sorted, 1, n) \o << x >> \o SubSeq(sorted, n + 1, Len(sorted))

RECURSIVE SortRowsAFrom(_, _, _)
SortRowsAFrom(sorted, rs, i) ==
    IF i > Len(rs) THEN sorted ELSE SortRowsAFrom(InsertRowA(sorted, rs[i]), rs, i + 1)

\* matchedPidCount: timelines whose mapping entry has a designer or a merch
matchedCount(pidMap, tl) ==
    Cardinality({k \in 1..Len(tl) :
        /\ tl[k].messages # << >>
        /\ (MapGet(pidMap, tl[k].pid).designer # << >> \/ MapGet(pidMap, tl[k].pid).merch # << >>)})

summarizeRowsA(pidMap, tl, now, sla) ==
    [rows |-> SortRowsAFrom(<< >>, RowsAFrom(pidMap, tl, 1, now, slaMsA(sla)), 1),
     matchedPidCount |-> matchedCount(pidMap, tl)]

(***************************************************************************)
(* Policy B: summarizeRows of the file generation and enrichAndSummarize   *)
(* of the first generation                                                 *)
(***************************************************************************)
\* [...ann].reverse().find(pred): the index of the last element satisfying
\* pred, 0 when there is none
LastIndex(flags) ==
    IF \E k \in 1..Len(flags) : flags[k]
    THEN CHOOSE k \in 1..Len(flags) : flags[k] /\ \A j \in (k + 1)..Len(flags) : ~flags[j]
    ELSE 0

\* a variant of latestCsIndex that takes the last message whatever its text
latestCsIndexAny(ms) == Len(ms)

latestCsIndex(ms) == LastIndex([k \in 1..Len(ms) |-> isLikelyCsMessage(ms[k].text)])

latestAssignedIndex(ms, assignedMerch) ==
    LastIndex([k \in 1..Len(ms) |-> senderMatchesMerch(ms[k].sender, assignedMerch)])

\* a variant of stillOpen in which a reply in the minute of the query closes
stillOpenUnlessLater(ms, ic, ia) == ia = 0 \/ ms[ia].ts < ms[ic].ts

\* !latestAssigned || latestAssigned.ts <= latestCs.ts
stillOpen(ms, ic, ia) == ia = 0 \/ ms[ia].ts <= ms[ic].ts

statusB(ms, assignedMerch, now, sla) ==
    LET ic == latestCsIndex(ms)
        ia == latestAssignedIndex(ms, assignedMerch)
    IN  IF ic = 0 THEN StatusClosed
        ELSE IF stillOpen(ms, ic, ia)
             THEN IF exceedsSlaB(now - ms[ic].ts, sla) THEN StatusBreached ELSE StatusOpen
        ELSE StatusClosed

rowFile(pidMap, pid, ms, now, sla) ==
    LET meta == MapGet(pidMap, pid)
        ic   == latestCsIndex(ms)
    IN  [pid |-> pid,
         designer |-> meta.designer,
         assigned_merch |-> meta.merch,
         status |-> statusB(ms, meta.merch, now, sla),
         latest_cs_preview |-> IF ic = 0 THEN << >> ELSE slice0(ms[ic].text, PreviewLen),
         cs_ts_ist |-> IF ic = 0 THEN << >> ELSE fmtIst(ms[ic].ts)]

rowV1(pidMap, pid, ms, now, sla) ==
    LET meta   == MapGet(pidMap, pid)
        ic     == latestCsIndex(ms)
        ia     == latestAssignedIndex(ms, meta.merch)
        open   == ic # 0 /\ stillOpen(ms, ic, ia)
        closed == ic # 0 /\ ~stillOpen(ms, ic, ia)
    IN  [pid |-> pid,
         designer |-> meta.designer,
         assigned_merch |-> meta.merch,
         status |-> statusB(ms, meta.merch, now, sla),
         age_hhmm |-> IF open THEN diffToHHMM(now - ms[ic].ts) ELSE << >>,
         latest_cs_preview |-> IF ic = 0 THEN << >> ELSE slice0(ms[ic].text, PreviewLen),
         cs_ts_ist |-> IF ic = 0 THEN << >> ELSE fmtIst(ms[ic].ts),
         last_merch_preview |-> IF closed THEN slice0(ms[ia].text, PreviewLen) ELSE << >>,
         merch_ts_ist |-> IF closed THEN fmtIst(ms[ia].ts) ELSE << >>,
         notes |-> << >>]

rankB(st) == IF st = StatusBreached THEN 0 ELSE IF st = StatusOpen THEN 1 ELSE 2

\* the comparator of the file generation is negative: a sorts before b
beforeB(a, b) ==
    \/ rankB(a.status) < rankB(b.status)
    \/ rankB(a.status) = rankB(b.status) /\ TupleLess(b.cs_ts_ist, a.cs_ts_ist)

InsertRowB(sorted, x) ==
    LET n == Cardinality({k \in 1..Len(sorted) : ~beforeB(x, sorted[k])})
    IN  SubSeq(sorted, 1, n) \o << x >> \o SubSeq(sorted, n + 1, Len(sorted))

RECURSIVE SortRowsBFrom(_, _, _)
SortRowsBFrom(sorted, rs, i) ==
    IF i > Len(rs) THEN sorted ELSE SortRowsBFrom(InsertRowB(sorted, rs[i]), rs, i + 1)

\* rows.sort(...) of the file generation
sortRowsB(rs) == SortRowsBFrom(<< >>, rs, 1)

summarizeRowsB(pidMap, tl, now, sla) ==
    sortRowsB([k \in 1..Len(tl) |-> rowFile(pidMap, tl[k].pid, tl[k].messages, now, sla)])

enrichAndSummarize(pidMap, tl, now, sla) ==
    [k \in 1..Len(tl) |-> rowV1(pidMap, tl[k].pid, tl[k].messages, now, sla)]

(***************************************************************************)
(* loadMappingOnce.  The data directory is [exists, files]; a file is      *)
(* [dump, readable, text]: dump tells whether its name matches the dump    *)
(* file pattern, an unreadable file makes readFileSync throw.  A Map       *)
(* object is [id, entries], id 0 is null; a promise is [id, state].        *)
(***************************************************************************)
NullMap == [id |-> 0, entries |-> << >>]

NullPromise == [id |-> 0, state |-> "none"]

DumpFiles(dir) == IF dir.exists THEN SelectSeq(dir.files, LAMBDA f : f.dump) ELSE << >>

RECURSIVE MergeEntries(_, _)
\* for (const [pid, v] of m.entries()) if (!map.has(pid)) map.set(pid, v)
MergeEntries(map, m) ==
    IF m = << >> THEN map
    ELSE MergeEntries(MapSetIfAbsent(map, Head(m).pid, Head(m).designer, Head(m).merch), Tail(m))

RECURSIVE LoadFiles(_, _, _)
\* the for (const f of files) loop of the try block
LoadFiles(v, files, map) ==
    IF files = << >> THEN map
    ELSE LoadFiles(v, Tail(files),
             IF v = "v1" THEN MapObjsFrom(parseCsv(Head(files).text), 1, map)
             ELSE MergeEntries(map, loadMappingFromCsvTextFile(Head(files).text)))

\* whether the try block throws
loadThrows(dir) == \E k \in 1..Len(DumpFiles(dir)) : ~DumpFiles(dir)[k].readable

\* a variant of loadExecutor without the catch block: an exception thrown in
\* the executor rejects the promise and PID_MAP keeps its value
loadExecutorNoCatch(v, dir) ==
    IF loadThrows(dir)
    THEN [assigned |-> FALSE, entries |-> << >>, state |-> "rejected"]
    ELSE [assigned |-> TRUE, entries |-> LoadFiles(v, DumpFiles(dir), << >>),
          state |-> "resolved"]

\* the executor of the promise: the entries PID_MAP is left with and how the
\* promise settles (the catch block assigns an empty Map and resolves)
loadExecutor(v, dir) ==
    IF loadThrows(dir)
    THEN [assigned |-> TRUE, entries |-> << >>, state |-> "resolved"]
    ELSE [assigned |-> TRUE, entries |-> LoadFiles(v, DumpFiles(dir), << >>),
          state |-> "resolved"]

\* a variant of loadMemoised that never finds a promise
loadNeverMemoised(ready) == FALSE

\* if (MAPPING_READY) return MAPPING_READY
loadMemoised(ready) == ready.id # 0

(***************************************************************************)
(* The handlers.  A request body is [chatText, cutoffDate, slaMinutes,     *)
(* mappingCsvText]; cutoffDate is [kind, y, m, d] with kind "missing",     *)
(* "text" (not a date) or "date" (written YYYY-MM-DD).                     *)
(***************************************************************************)
HttpOk == 200

HttpBadRequest == 400

HttpMethodNotAllowed == 405

HttpServerError == 500

\* new Date(cutoffDate + "T00:00:00.000+05:30")
cutoffOf(cd) == IF cd.kind = "date" THEN DateFromIso(cd.y, 4, cd.m, cd.d, 0, 0) ELSE InvalidDate

Outcome(st, ms, tl, rs, mappingCount, matched) ==
    [status |-> st, msgs |-> ms, timelines |-> tl, rows |-> rs,
     mappingCount |-> mappingCount, matchedPidCount |-> matched]

Refused(st) == Outcome(st, << >>, << >>, << >>, 0, 0)

\* the body of the handler of the two file generations after the await
handleFile(v, pidMap, r, now) ==
    IF r.chatText = << >> \/ r.cutoffDate.kind = "missing" THEN Refused(HttpBadRequest)
    ELSE IF ~cutoffOf(r.cutoffDate).valid THEN Refused(HttpBadRequest)
    ELSE LET sla == handlerSla(r.slaMinutes, DefaultSlaB)
             ms  == parseChat(v, r.chatText, cutoffOf(r.cutoffDate))
             tl  == buildPidTimelines(ms)
             rs  == IF v = "v1" THEN enrichAndSummarize(pidMap.entries, tl, now, sla)
                    ELSE summarizeRowsB(pidMap.entries, tl, now, sla)
         IN  Outcome(HttpOk, ms, tl, rs, Len(pidMap.entries), 0)

\* the body of the handler of the upload generation
handleUpload(r, now) ==
    IF r.chatText = << >> \/ r.mappingCsvText = << >> \/ r.cutoffDate.kind = "missing"
    THEN Refused(HttpBadRequest)
    ELSE IF ~cutoffOf(r.cutoffDate).valid THEN Refused(HttpBadRequest)
    ELSE LET sla    == handlerSla(r.slaMinutes, DefaultSlaA)
             pidMap == loadMappingFromCsvTextUpload(r.mappingCsvText)
             ms     == parseChat("upload", r.chatText, cutoffOf(r.cutoffDate))
             tl     == buildPidTimelines(ms)
             out    == summarizeRowsA(pidMap, tl, now, sla)
         IN  Outcome(HttpOk, ms, tl, out.rows, Len(pidMap), out.matchedPidCount)

(***************************************************************************)
(* Inputs: chat lines, mapping tables and data directories                 *)
(***************************************************************************)
\* 17/10/2024, 9:40 pm - Priya: Any update on PID 123456?
LineA1 ==
    [shape |-> "android", d |-> 17, mo |-> 10, y |-> 2024, yLen |-> 4, hh |-> 9, mm |-> 40,
     ampm |-> <<"p", "m">>,
     sender |-> <<"P", "r", "i", "y", "a">>,
     text |-> <<"A", "n", "y", " ", "u", "p", "d", "a", "t", "e", " ", "o", "n", " ", "P", "I", "D", " ", "1", "2", "3", "4", "5", "6", "?">>]

\* 18/10/2024, 11:00 am - Priya: still following up on 123456
LineA2 ==
    [shape |-> "android", d |-> 18, mo |-> 10, y |-> 2024, yLen |-> 4, hh |-> 11, mm |-> 0,
     ampm |-> <<"a", "m">>,
     sender |-> <<"P", "r", "i", "y", "a">>,
     text |-> <<"s", "t", "i", "l", "l", " ", "f", "o", "l", "l", "o", "w", "i", "n", "g", " ", "u", "p", " ", "o", "n", " ", "1", "2", "3", "4", "5", "6">>]

\* [17/10/24, 22:40] Ravi K: 123456 is ready
LineA3 ==
    [shape |-> "ios", d |-> 17, mo |-> 10, y |-> 24, yLen |-> 2, hh |-> 22, mm |-> 40,
     ampm |-> <<>>,
     sender |-> <<"R", "a", "v", "i", " ", "K">>,
     text |-> <<"1", "2", "3", "4", "5", "6", " ", "i", "s", " ", "r", "e", "a", "d", "y">>]

\* 17/10/2024, 22:41 - Ravi K: 654321 and 123456 dispatch?
LineA4 ==
    [shape |-> "android", d |-> 17, mo |-> 10, y |-> 2024, yLen |-> 4, hh |-> 22, mm |-> 41,
     ampm |-> <<>>,
     sender |-> <<"R", "a", "v", "i", " ", "K">>,
     text |-> <<"6", "5", "4", "3", "2", "1", " ", "a", "n", "d", " ", "1", "2", "3", "4", "5", "6", " ", "d", "i", "s", "p", "a", "t", "c", "h", "?">>]

\* 17/10/2024, 9:40 PM - Ravi K: pid:654321 or 654321
LineA5 ==
    [shape |-> "android", d |-> 17, mo |-> 10, y |-> 2024, yLen |-> 4, hh |-> 9, mm |-> 40,
     ampm |-> <<"P", "M">>,
     sender |-> <<"R", "a", "v", "i", " ", "K", " ">>,
     text |-> <<"p", "i", "d", ":", "6", "5", "4", "3", "2", "1", " ", "o", "r", " ", "6", "5", "4", "3", "2", "1">>]

\* 17/10/2024, 9:40 pm - CS Team: Any update on PID 123456?
LineB1 ==
    [shape |-> "android", d |-> 17, mo |-> 10, y |-> 2024, yLen |-> 4, hh |-> 9, mm |-> 40,
     ampm |-> <<"p", "m">>,
     sender |-> <<"C", "S", " ", "T", "e", "a", "m">>,
     text |-> <<"A", "n", "y", " ", "u", "p", "d", "a", "t", "e", " ", "o", "n", " ", "P", "I", "D", " ", "1", "2", "3", "4", "5", "6", "?">>]

\* 17/10/2024, 21:40 - Ravi K: 123456 is ready
LineB2 ==
    [shape |-> "android", d |-> 17, mo |-> 10, y |-> 2024, yLen |-> 4, hh |-> 21, mm |-> 40,
     ampm |-> <<>>,
     sender |-> <<"R", "a", "v", "i", " ", "K">>,
     text |-> <<"1", "2", "3", "4", "5", "6", " ", "i", "s", " ", "r", "e", "a", "d", "y">>]

\* 17/10/2024, 22:40 - Ravi K: 123456 dispatch?
LineB3 ==
    [shape |-> "android", d |-> 17, mo |-> 10, y |-> 2024, yLen |-> 4, hh |-> 22, mm |-> 40,
     ampm |-> <<>>,
     sender |-> <<"R", "a", "v", "i", " ", "K">>,
     text |-> <<"1", "2", "3", "4", "5", "6", " ", "d", "i", "s", "p", "a", "t", "c", "h", "?">>]

\* 17/10/2024, 11:40 pm - Ravi K: 654321 and 123456 done
LineB4 ==
    [shape |-> "android", d |-> 17, mo |-> 10, y |-> 2024, yLen |-> 4, hh |-> 11, mm |-> 40,
     ampm |-> <<"p", "m">>,
     sender |-> <<"R", "a", "v", "i", " ", "K">>,
     text |-> <<"6", "5", "4", "3", "2", "1", " ", "a", "n", "d", " ", "1", "2", "3", "4", "5", "6", " ", "d", "o", "n", "e">>]

\* 18/10/2024, 11:00 am - Priya: price for 654321
LineB5 ==
    [shape |-> "android", d |-> 18, mo |-> 10, y |-> 2024, yLen |-> 4, hh |-> 11, mm |-> 0,
     ampm |-> <<"a", "m">>,
     sender |-> <<"P", "r", "i", "y", "a">>,
     text |-> <<"p", "r", "i", "c", "e", " ", "f", "o", "r", " ", "6", "5", "4", "3", "2", "1">>]

\* 16/10/2024, 00:00 - Priya: 123456 at the cutoff
LineP1 ==
    [shape |-> "android", d |-> 16, mo |-> 10, y |-> 2024, yLen |-> 4, hh |-> 0, mm |-> 0,
     ampm |-> <<>>,
     sender |-> <<"P", "r", "i", "y", "a">>,
     text |-> <<"1", "2", "3", "4", "5", "6", " ", "a", "t", " ", "t", "h", "e", " ", "c", "u", "t", "o", "f", "f">>]

\* 16/10/2024, 12:01 am - Priya: 123456 again PID-123456
LineP2 ==
    [shape |-> "android", d |-> 16, mo |-> 10, y |-> 2024, yLen |-> 4, hh |-> 12, mm |-> 1,
     ampm |-> <<"a", "m">>,
     sender |-> <<"P", "r", "i", "y", "a">>,
     text |-> <<"1", "2", "3", "4", "5", "6", " ", "a", "g", "a", "i", "n", " ", "P", "I", "D", "-", "1", "2", "3", "4", "5", "6">>]

\* 15/10/2024, 11:59 pm - Priya: 123456 before
LineP3 ==
    [shape |-> "android", d |-> 15, mo |-> 10, y |-> 2024, yLen |-> 4, hh |-> 11, mm |-> 59,
     ampm |-> <<"p", "m">>,
     sender |-> <<"P", "r", "i", "y", "a">>,
     text |-> <<"1", "2", "3", "4", "5", "6", " ", "b", "e", "f", "o", "r", "e">>]

\* 17/10/2024, 25:00 - Priya: 123456 no such hour
LineP4 ==
    [shape |-> "android", d |-> 17, mo |-> 10, y |-> 2024, yLen |-> 4, hh |-> 25, mm |-> 0,
     ampm |-> <<>>,
     sender |-> <<"P", "r", "i", "y", "a">>,
     text |-> <<"1", "2", "3", "4", "5", "6", " ", "n", "o", " ", "s", "u", "c", "h", " ", "h", "o", "u", "r">>]

\* [16/10/24, 0:01] Ravi K: 123456 654321 same minute
LineP5 ==
    [shape |-> "ios", d |-> 16, mo |-> 10, y |-> 24, yLen |-> 2, hh |-> 0, mm |-> 1,
     ampm |-> <<>>,
     sender |-> <<"R", "a", "v", "i", " ", "K">>,
     text |-> <<"1", "2", "3", "4", "5", "6", " ", "6", "5", "4", "3", "2", "1", " ", "s", "a", "m", "e", " ", "m", "i", "n", "u", "t", "e">>]

\* Messages and calls are end-to-end encrypted.
LineP6 ==
    [shape |-> "none", d |-> 0, mo |-> 0, y |-> 0, yLen |-> 0, hh |-> 0, mm |-> 0,
     ampm |-> <<>>,
     sender |-> <<>>,
     text |-> <<"M", "e", "s", "s", "a", "g", "e", "s", " ", "a", "n", "d", " ", "c", "a", "l", "l", "s", " ", "a", "r", "e", " ", "e", "n", "d", "-", "t", "o", "-", "e", "n", "d", " ", "e", "n", "c", "r", "y", "p", "t", "e", "d", " ", "1", "2", "3", "4", "5", "6">>]

\* pid,designer,merchandiser\n123456,Asha,Ravi Kumar\n654321,Bela,\n
CsvMain ==
    <<"p", "i", "d", ",", "d", "e", "s", "i", "g", "n", "e", "r", ",", "m", "e", "r", "c", "h", "a", "n", "d", "i", "s", "e", "r", "\n", "1", "2", "3", "4", "5", "6", ",", "A", "s", "h", "a", ",", "R", "a", "v", "i", " ", "K", "u", "m", "a", "r", "\n", "6", "5", "4", "3", "2", "1", ",", "B", "e", "l", "a", ",", "\n">>

\* product_id,designer_name,merch_name\r\n123456,Zed,Zoe\r\n111111, Dia ,Mo\r\n
CsvSecond ==
    <<"p", "r", "o", "d", "u", "c", "t", "_", "i", "d", ",", "d", "e", "s", "i", "g", "n", "e", "r", "_", "n", "a", "m", "e", ",", "m", "e", "r", "c", "h", "_", "n", "a", "m", "e", "\r", "\n", "1", "2", "3", "4", "5", "6", ",", "Z", "e", "d", ",", "Z", "o", "e", "\r", "\n", "1", "1", "1", "1", "1", "1", ",", " ", "D", "i", "a", " ", ",", "M", "o", "\r", "\n">>

\* BOM"PID","Designer","Merch"\n"123456","Asha, A","Ravi ""RK"" Kumar"\n
CsvQuoted ==
    <<"BOM", "\"", "P", "I", "D", "\"", ",", "\"", "D", "e", "s", "i", "g", "n", "e", "r", "\"", ",", "\"", "M", "e", "r", "c", "h", "\"", "\n", "\"", "1", "2", "3", "4", "5", "6", "\"", ",", "\"", "A", "s", "h", "a", ",", " ", "A", "\"", ",", "\"", "R", "a", "v", "i", " ", "\"", "\"", "R", "K", "\"", "\"", " ", "K", "u", "m", "a", "r", "\"", "\n">>

N_Asha == <<"A", "s", "h", "a">>

N_Bela == <<"B", "e", "l", "a">>

N_RaviKumar == <<"R", "a", "v", "i", " ", "K", "u", "m", "a", "r">>

N_AshaA == <<"A", "s", "h", "a", ",", " ", "A">>

N_RaviRK == <<"R", "a", "v", "i", " ", "\"", "R", "K", "\"", " ", "K", "u", "m", "a", "r">>

N_Zed == <<"Z", "e", "d">>

N_Zoe == <<"Z", "o", "e">>

N_Dia == <<"D", "i", "a">>

N_Mo == <<"M", "o">>

P_123456 == <<"1", "2", "3", "4", "5", "6">>

P_654321 == <<"6", "5", "4", "3", "2", "1">>

P_111111 == <<"1", "1", "1", "1", "1", "1">>

DumpMain == [dump |-> TRUE, readable |-> TRUE, text |-> CsvMain]

DumpSecond == [dump |-> TRUE, readable |-> TRUE, text |-> CsvSecond]

DumpLocked == [dump |-> TRUE, readable |-> FALSE, text |-> CsvSecond]

OtherFile == [dump |-> FALSE, readable |-> FALSE, text |-> << >>]

DirMissing == [exists |-> FALSE, files |-> << >>]

DirMain == [exists |-> TRUE, files |-> << OtherFile, DumpMain >>]

DirTwo == [exists |-> TRUE, files |-> << DumpMain, DumpSecond >>]

DirLocked == [exists |-> TRUE, files |-> << DumpMain, DumpLocked >>]

\* longest chat, in lines
MaxChatLen == 3

\* concurrent invocations of the handler
MaxHandlers == 2

Chats(lines) == UNION {[1..n -> lines] : n \in 1..MaxChatLen}

CutoffOct(d) == [kind |-> "date", y |-> 2024, m |-> 10, d |-> d]

CutoffMissing == [kind |-> "missing", y |-> 0, m |-> 0, d |-> 0]

CutoffText == [kind |-> "text", y |-> 0, m |-> 0, d |-> 0]

SlaAbsent == [kind |-> "absent", v |-> 0]

SlaNaN == [kind |-> "nan", v |-> 0]

SlaInt(n) == [kind |-> "int", v |-> n]

\* the instant of a day of October 2024 at hh:mm:00.000 +05:30, plus ms
At(d, hh, mm, ms) == DateFromIso(2024, 4, 10, d, hh, mm).t + ms

Requests(chats, cutoffs, slas, mappings) ==
    [chatText : chats, cutoffDate : cutoffs, slaMinutes : slas, mappingCsvText : mappings]

NoRequest ==
    [chatText |-> << >>, cutoffDate |-> CutoffMissing, slaMinutes |-> SlaAbsent,
     mappingCsvText |-> << >>, now |-> 0]

NoResponse == [status |-> 0, mappingCount |-> 0, matchedPidCount |-> 0]

(***************************************************************************)
(* The state machine.  JavaScript runs each synchronous stretch of a       *)
(* handler to completion: Enter is the stretch up to the await, Resume the *)
(* stretch after it, Post the whole handler of the upload generation       *)
(* (which awaits nothing).                                                 *)
(***************************************************************************)
InitWith(variants, tzs, dirs, n) ==
    /\ variant \in variants
    /\ serverTz \in tzs
    /\ dataDir \in dirs
    /\ PID_MAP = NullMap
    /\ MAPPING_READY = NullPromise
    /\ loadCount = 0
    /\ pc = [h \in 1..n |-> "idle"]
    /\ observed = [h \in 1..n |-> [promise |-> 0, map |-> 0]]
    /\ req = NoRequest
    /\ msgs = << >>
    /\ timelines = << >>
    /\ rows = << >>
    /\ response = NoResponse
    /\ csv = << >>
    /\ parsed = << >>
    /\ body = << >>
    /\ found = << >>

Send(r, now, out) ==
    /\ req' = [chatText |-> r.chatText, cutoffDate |-> r.cutoffDate,
               slaMinutes |-> r.slaMinutes, mappingCsvText |-> r.mappingCsvText,
               now |-> now]
    /\ msgs' = out.msgs
    /\ timelines' = out.timelines
    /\ rows' = out.rows
    /\ response' = [status |-> out.status, mappingCount |-> out.mappingCount,
                    matchedPidCount |-> out.matchedPidCount]
    /\ UNCHANGED << csv, parsed, body, found >>

\* a request whose method is not POST
Reject(h) ==
    /\ pc[h] = "idle"
    /\ pc' = [pc EXCEPT ![h] = "done"]
    /\ Send(NoRequest, 0, Refused(HttpMethodNotAllowed))
    /\ UNCHANGED << variant, serverTz, dataDir, PID_MAP, MAPPING_READY, loadCount, observed >>

\* handler up to "await loadMappingOnce()"
Enter(h) ==
    /\ variant \in {"v1", "file"}
    /\ pc[h] = "idle"
    /\ pc' = [pc EXCEPT ![h] = "awaiting"]
    /\ IF loadMemoised(MAPPING_READY)
       THEN UNCHANGED << PID_MAP, MAPPING_READY, loadCount >>
       ELSE LET ex == loadExecutor(variant, dataDir)
            IN  /\ loadCount' = loadCount + 1
                /\ PID_MAP' = IF ex.assigned
                              THEN [id |-> loadCount + 1, entries |-> ex.entries]
                              ELSE PID_MAP
                /\ MAPPING_READY' = [id |-> loadCount + 1, state |-> ex.state]
    /\ observed' = [observed EXCEPT ![h].promise = MAPPING_READY'.id]
    /\ UNCHANGED << variant, serverTz, dataDir, req, msgs, timelines, rows, response,
                    csv, parsed, body, found >>

\* handler after the await: a rejected promise throws into the catch block
Resume(h, requests, nows) ==
    /\ variant \in {"v1", "file"}
    /\ pc[h] = "awaiting"
    /\ pc' = [pc EXCEPT ![h] = "done"]
    /\ observed' = [observed EXCEPT ![h].map = PID_MAP.id]
    /\ \E r \in requests, now \in nows :
         Send(r, now, IF MAPPING_READY.state = "rejected" THEN Refused(HttpServerError)
                      ELSE handleFile(variant, PID_MAP, r, now))
    /\ UNCHANGED << variant, serverTz, dataDir, PID_MAP, MAPPING_READY, loadCount >>

\* the handler of the upload generation
Post(h, requests, nows) ==
    /\ variant = "upload"
    /\ pc[h] = "idle"
    /\ pc' = [pc EXCEPT ![h] = "done"]
    /\ \E r \in requests, now \in nows : Send(r, now, handleUpload(r, now))
    /\ UNCHANGED << variant, serverTz, dataDir, PID_MAP, MAPPING_READY, loadCount, observed >>

(***************************************************************************)
(* Specifications                                                          *)
(***************************************************************************)
\* server time zones, minutes east of UTC: UTC and +05:30
UtcOnly == {0}

ServerZones == {0, IstOffsetMinutes}

\* Policy A: the upload generation on chats of the lines A1..A5
LinesA == {LineA1, LineA2, LineA3, LineA4, LineA5}

RequestsA == Requests(Chats(LinesA), {CutoffOct(16)}, {SlaAbsent, SlaInt(1), SlaNaN}, {CsvMain})

NowsA == {At(17, 22, 40, 0), At(17, 22, 40, 1), At(19, 0, 0, 0)}

InitA == InitWith({"upload"}, UtcOnly, {DirMissing}, 1)

NextA == \E h \in DOMAIN pc : Post(h, RequestsA, NowsA)

SpecA == InitA /\ [][NextA]_vars

\* Policy B: the two file generations on chats of the lines B1..B5
LinesB == {LineB1, LineB2, LineB3, LineB4, LineB5}

RequestsB == Requests(Chats(LinesB), {CutoffOct(16)}, {SlaAbsent, SlaInt(60), SlaNaN}, {<< >>})

NowsB == {At(17, 23, 40, 0), At(17, 23, 40, 1), At(19, 0, 0, 0)}

InitB == InitWith({"v1", "file"}, UtcOnly, {DirMain}, 1)

NextB == \E h \in DOMAIN pc : Enter(h) \/ Resume(h, RequestsB, NowsB)

SpecB == InitB /\ [][NextB]_vars

\* the process: concurrent invocations of the file generations' handler
\* over every data directory
RequestsServer ==
    Requests({<< LineB1, LineB4 >>, << LineB5 >>}, {CutoffOct(16), CutoffText}, {SlaAbsent}, {<< >>})

NowsServer == {At(19, 0, 0, 0)}

InitServer ==
    InitWith({"v1", "file"}, UtcOnly, {DirMissing, DirMain, DirTwo, DirLocked}, MaxHandlers)

NextServer ==
    \E h \in DOMAIN pc : Reject(h) \/ Enter(h) \/ Resume(h, RequestsServer, NowsServer)

SpecServer == InitServer /\ [][NextServer]_vars

\* all three generations on chats of the lines P1..P6 and every mapping table
LinesP == {LineP1, LineP2, LineP3, LineP4, LineP5, LineP6}

RequestsP ==
    Requests(Chats(LinesP), {CutoffOct(16), CutoffOct(15)}, {SlaAbsent}, {CsvMain})

NowsP == {At(19, 0, 0, 0)}

Init == InitWith({"v1", "file", "upload"}, ServerZones, {DirMain}, 1)

Next ==
    \E h \in DOMAIN pc :
        \/ Enter(h)
        \/ Resume(h, RequestsP, NowsP)
        \/ Post(h, RequestsP, NowsP)

Spec == Init /\ [][Next]_vars

\* CSV rendering and parsing of the two later generations on row sets whose
\* cells hold commas, double quotes, a newline and a carriage return
T_Plain == <<"A", "n", "y", " ", "u", "p", "d", "a", "t", "e", "?">>

\* say "hi"
T_Quote == <<"s", "a", "y", " ", "\"", "h", "i", "\"">>

\* line, newline, two
T_Newline == <<"l", "i", "n", "e">> \o << "\n" >> \o <<"t", "w", "o">>

\* Asha, carriage return, B
T_Return == <<"A", "s", "h", "a">> \o << "\r" >> \o <<"B">>

T_Open == <<"O", "p", "e", "n">>

T_Stamp == <<"2", "0", "2", "4", "-", "1", "0", "-", "1", "7", " ", "2", "1", ":", "4", "0", " ", "I", "S", "T">>

\* the designer and the preview of a row
CellCases ==
    { << N_Asha, T_Plain >>, << N_AshaA, T_Plain >>, << N_Asha, T_Quote >>,
      << N_Bela, T_Newline >>, << T_Return, T_Plain >>, << << >>, << >> >> }

\* the cells of a row in the order of the headers of generation v
CellsOf(v, c) ==
    IF v = "upload"
    THEN << P_123456, c[1], N_RaviKumar, T_Open, c[2], T_Stamp, c[2], T_Stamp >>
    ELSE << P_123456, c[1], N_RaviKumar, T_Open, c[2], T_Stamp >>

\* most rows of a rendered report
MaxCsvRows == 2

CellRowSets(v) ==
    UNION {{[k \in 1..n |-> CellsOf(v, f[k])] : f \in [1..n -> CellCases]} : n \in 0..MaxCsvRows}

HeadersOf(v) == IF v = "upload" THEN HeadersUpload ELSE HeadersFile

InitCsv ==
    /\ variant \in {"file", "upload"}
    /\ serverTz \in UtcOnly
    /\ dataDir = DirMissing
    /\ PID_MAP = NullMap
    /\ MAPPING_READY = NullPromise
    /\ loadCount = 0
    /\ pc = [h \in {1} |-> "idle"]
    /\ observed = [h \in {1} |-> [promise |-> 0, map |-> 0]]
    /\ req = NoRequest
    /\ msgs = << >>
    /\ timelines = << >>
    /\ rows \in CellRowSets(variant)
    /\ response = NoResponse
    /\ csv = << >>
    /\ parsed = << >>
    /\ body = << >>
    /\ found = << >>

\* the csv of the response is rendered from the rows
Render(h) ==
    /\ pc[h] = "idle"
    /\ pc' = [pc EXCEPT ![h] = "rendered"]
    /\ csv' = toCsvText(HeadersOf(variant), rows)
    /\ UNCHANGED << variant, serverTz, dataDir, PID_MAP, MAPPING_READY, loadCount,
                    observed, req, msgs, timelines, rows, response, parsed,
                    body, found >>

\* the rendered text is parsed by parseCsvRobust of the same generation
Reparse(h) ==
    /\ pc[h] = "rendered"
    /\ pc' = [pc EXCEPT ![h] = "reparsed"]
    /\ parsed' = IF variant = "upload" THEN parseCsvRobustUpload(csv)
                 ELSE parseCsvRobustFile(csv)
    /\ UNCHANGED << variant, serverTz, dataDir, PID_MAP, MAPPING_READY, loadCount,
                    observed, req, msgs, timelines, rows, response, csv,
                    body, found >>

NextCsv == \E h \in DOMAIN pc : Render(h) \/ Reparse(h)

SpecCsv == InitCsv /\ [][NextCsv]_vars

\* extractPids on the bodies made of at most MaxBodyPieces of these pieces
K_Seven == <<"7">>

K_Space == <<" ">>

K_Pid == <<"P", "i", "d">>

K_Colon == <<":">>

K_Letter == <<"x">>

BodyPieces == { P_123456, P_654321, K_Seven, K_Space, K_Pid, K_Colon, K_Letter }

\* most pieces of a body
MaxBodyPieces == 4

RECURSIVE Concat(_)
Concat(parts) == IF parts = << >> THEN << >> ELSE Head(parts) \o Concat(Tail(parts))

Bodies == UNION {{Concat(f) : f \in [1..n -> BodyPieces]} : n \in 0..MaxBodyPieces}

InitPids ==
    /\ variant \in {"v1", "file", "upload"}
    /\ serverTz \in UtcOnly
    /\ dataDir = DirMissing
    /\ PID_MAP = NullMap
    /\ MAPPING_READY = NullPromise
    /\ loadCount = 0
    /\ pc = [h \in {1} |-> "idle"]
    /\ observed = [h \in {1} |-> [promise |-> 0, map |-> 0]]
    /\ req = NoRequest
    /\ msgs = << >>
    /\ timelines = << >>
    /\ rows = << >>
    /\ response = NoResponse
    /\ csv = << >>
    /\ parsed = << >>
    /\ body \in Bodies
    /\ found = << >>

\* extractPids(body); the three generations share one regular expression
Extract(h) ==
    /\ pc[h] = "idle"
    /\ pc' = [pc EXCEPT ![h] = "extracted"]
    /\ found' = extractPids(body)
    /\ UNCHANGED << variant, serverTz, dataDir, PID_MAP, MAPPING_READY, loadCount,
                    observed, req, msgs, timelines, rows, response, csv, parsed, body >>

NextPids == \E h \in DOMAIN pc : Extract(h)

SpecPids == InitPids /\ [][NextPids]_vars

\* summarizeRows of Policy A on the timelines of the chats of lines A1..A5
\* and on a Map that is empty or holds designers and merchandisers
MapMain ==
    [id |-> 1,
     entries |-> << [pid |-> P_123456, designer |-> N_Asha, merch |-> N_RaviKumar],
                    [pid |-> P_654321, designer |-> N_Bela, merch |-> << >>] >>]

MapEmpty == [id |-> 1, entries |-> << >>]

TimelinesA ==
    {buildPidTimelines(parseChat("upload", chat, cutoffOf(CutoffOct(16)))) : chat \in Chats(LinesA)}

InitPolicyA ==
    /\ variant = "upload"
    /\ serverTz \in UtcOnly
    /\ dataDir = DirMissing
    /\ PID_MAP \in {MapEmpty, MapMain}
    /\ MAPPING_READY = NullPromise
    /\ loadCount = 0
    /\ pc = [h \in {1} |-> "idle"]
    /\ observed = [h \in {1} |-> [promise |-> 0, map |-> 0]]
    /\ req = NoRequest
    /\ msgs = << >>
    /\ timelines \in TimelinesA
    /\ rows = << >>
    /\ response = NoResponse
    /\ csv = << >>
    /\ parsed = << >>
    /\ body = << >>
    /\ found = << >>

\* summarizeRows(PID_MAP, timelines, now, sla) with the sla its handler passes
Summarize(h, slas, nows) ==
    /\ pc[h] = "idle"
    /\ pc' = [pc EXCEPT ![h] = "summarized"]
    /\ \E x \in slas, now \in nows :
         LET out == summarizeRowsA(PID_MAP.entries, timelines, now, handlerSla(x, DefaultSlaA))
         IN  /\ req' = [req EXCEPT !.slaMinutes = x, !.now = now]
             /\ rows' = out.rows
             /\ response' = [response EXCEPT !.matchedPidCount = out.matchedPidCount]
    /\ UNCHANGED << variant, serverTz, dataDir, PID_MAP, MAPPING_READY, loadCount,
                    observed, msgs, timelines, csv, parsed, body, found >>

NextPolicyA == \E h \in DOMAIN pc : Summarize(h, {SlaAbsent, SlaInt(1), SlaNaN}, NowsA)

SpecPolicyA == InitPolicyA /\ [][NextPolicyA]_vars

(***************************************************************************)
(* Properties                                                              *)
(***************************************************************************)
Reported == response.status = HttpOk

RowsFor(pid) == {i \in 1..Len(rows) : rows[i].pid = pid}

\* the SLA Policy A works with, in milliseconds
SlaMsUsedA == slaMsA(handlerSla(req.slaMinutes, DefaultSlaA))

\* the second message of the timeline is a reply: it has another sender
HasReply(arr) == Len(arr) >= 2 /\ arr[2].sender # arr[1].sender

\* C1: Policy A, a timeline whose second message has another sender than the
\* first is reported, as Open - Breached, exactly when the second message
\* came more than the SLA after the first; otherwise no row of the report
\* has its PID, whatever now is and whatever follows in the timeline.
C1_ReplyGapDecides ==
    (variant = "upload" /\ Reported) =>
        \A k \in 1..Len(timelines) :
            LET arr == timelines[k].messages
            IN  HasReply(arr) =>
                    IF arr[2].ts - arr[1].ts > SlaMsUsedA
                    THEN /\ Cardinality(RowsFor(timelines[k].pid)) = 1
                         /\ \A i \in RowsFor(timelines[k].pid) : rows[i].status = StatusBreached
                    ELSE RowsFor(timelines[k].pid) = {}

\* a late reply was reported although now is not more than the SLA after
\* the first message
C1_Witness ==
    /\ variant = "upload" /\ Reported
    /\ \E k \in 1..Len(timelines) :
         /\ HasReply(timelines[k].messages)
         /\ timelines[k].messages[2].ts - timelines[k].messages[1].ts > SlaMsUsedA
         /\ req.now - timelines[k].messages[1].ts <= SlaMsUsedA
         /\ \E i \in RowsFor(timelines[k].pid) : rows[i].status = StatusBreached

\* C2: Policy A, a timeline with no second message, or whose second message
\* has the sender of the first, is reported exactly when now is more than
\* the SLA after the first message; its one row is Open - Breached and its
\* first preview is the text of the first message.
C2_AgeDecides ==
    (variant = "upload" /\ Reported) =>
        \A k \in 1..Len(timelines) :
            LET arr == timelines[k].messages
            IN  ~HasReply(arr) =>
                    IF req.now - arr[1].ts > SlaMsUsedA
                    THEN /\ Cardinality(RowsFor(timelines[k].pid)) = 1
                         /\ \A i \in RowsFor(timelines[k].pid) :
                              /\ rows[i].status = StatusBreached
                              /\ rows[i].first_cs_preview = slice0(arr[1].text, PreviewLen)
                    ELSE RowsFor(timelines[k].pid) = {}

\* the example of the specification: Priya asks about 123456 and follows up
\* herself, 60 minute SLA, a later now: one row, breached, her first text
C2_Witness ==
    /\ variant = "upload" /\ Reported
    /\ req.chatText = << LineA1, LineA2 >>
    /\ req.slaMinutes = SlaAbsent
    /\ Len(rows) = 1
    /\ rows[1].pid = P_123456
    /\ rows[1].status = StatusBreached
    /\ rows[1].first_cs_preview = LineA1.text

\* the SLA Policy B works with, in minutes (NaN when slaMinutes is no number)
SlaUsedB == handlerSla(req.slaMinutes, DefaultSlaB)

PolicyB == variant \in {"v1", "file"}

\* the merchandiser the mapping in use assigns to a PID
MerchOf(pid) == MapGet(PID_MAP.entries, pid).merch

\* the instants of the query-like messages of a timeline
QueryTimes(arr) == {arr[k].ts : k \in {j \in 1..Len(arr) : isLikelyCsMessage(arr[j].text)}}

LatestQueryTs(arr) == CHOOSE t \in QueryTimes(arr) : \A u \in QueryTimes(arr) : u <= t

\* some message of the assigned merchandiser is strictly later than the
\* latest query-like message
AnsweredLater(arr, pid) ==
    \E k \in 1..Len(arr) :
        /\ senderMatchesMerch(arr[k].sender, MerchOf(pid))
        /\ arr[k].ts > LatestQueryTs(arr)

\* C3: Policy B, a timeline with a query-like message has one row; it is
\* Closed exactly when some message of the assigned merchandiser is strictly
\* later than the latest query-like message; otherwise it is open, and
\* Open - Breached exactly when now is more than the SLA minutes after the
\* latest query-like message (with an SLA that is no number the claim fixes
\* only that the row is open).
C3_ClosedIffAnsweredLater ==
    (PolicyB /\ Reported) =>
        \A k \in 1..Len(timelines) :
            LET arr == timelines[k].messages
                pid == timelines[k].pid
            IN  QueryTimes(arr) # {} =>
                  /\ Cardinality(RowsFor(pid)) = 1
                  /\ \A i \in RowsFor(pid) :
                        IF AnsweredLater(arr, pid) THEN rows[i].status = StatusClosed
                        ELSE IF SlaUsedB.nan THEN rows[i].status \in {StatusOpen, StatusBreached}
                        ELSE IF req.now - LatestQueryTs(arr) > SlaUsedB.v * MsPerMinute
                             THEN rows[i].status = StatusBreached
                             ELSE rows[i].status = StatusOpen

\* the assigned merchandiser wrote in the minute of the latest query, and the
\* latest query of another report is the merchandiser's own: both rows open
C3_Witness ==
    /\ PolicyB /\ Reported
    /\ \E k \in 1..Len(timelines) :
         LET arr == timelines[k].messages
             pid == timelines[k].pid
         IN  /\ QueryTimes(arr) # {}
             /\ \E m \in 1..Len(arr) :
                  /\ senderMatchesMerch(arr[m].sender, MerchOf(pid))
                  /\ arr[m].ts = LatestQueryTs(arr)
                  /\ \/ ~isLikelyCsMessage(arr[m].text)
                     \/ Len(arr) = 1
             /\ \E i \in RowsFor(pid) : rows[i].status = StatusOpen

\* C4: Policy B, a timeline without a query-like message has one row, Closed,
\* whose latest_cs_preview and cs_ts_ist are empty, and in the first
\* generation also age_hhmm, last_merch_preview and merch_ts_ist, whatever
\* now, the SLA and the senders are.
C4_NoQueryIsClosedAndEmpty ==
    (PolicyB /\ Reported) =>
        \A k \in 1..Len(timelines) :
            QueryTimes(timelines[k].messages) = {} =>
              /\ Cardinality(RowsFor(timelines[k].pid)) = 1
              /\ \A i \in RowsFor(timelines[k].pid) :
                    /\ rows[i].status = StatusClosed
                    /\ rows[i].latest_cs_preview = << >>
                    /\ rows[i].cs_ts_ist = << >>
                    /\ variant = "v1" =>
                          /\ rows[i].age_hhmm = << >>
                          /\ rows[i].last_merch_preview = << >>
                          /\ rows[i].merch_ts_ist = << >>

\* a timeline without a query holds a message of the assigned merchandiser,
\* now is days later, and the first generation reports it Closed
C4_Witness ==
    /\ variant = "v1" /\ Reported
    /\ req.now = At(19, 0, 0, 0)
    /\ \E k \in 1..Len(timelines) :
         LET arr == timelines[k].messages
             pid == timelines[k].pid
         IN  /\ QueryTimes(arr) = {}
             /\ \E m \in 1..Len(arr) : senderMatchesMerch(arr[m].sender, MerchOf(pid))
             /\ \E i \in RowsFor(pid) : rows[i].status = StatusClosed

\* C5: Policy B, in every generation the rows of the report are ordered
\* Open - Breached, then Open, then Closed, and within a status by
\* descending cs_ts_ist.
C5_RowsSortedEverywhere ==
    (PolicyB /\ Reported) =>
        \A i, j \in 1..Len(rows) :
            i < j =>
              /\ rankB(rows[i].status) <= rankB(rows[j].status)
              /\ rankB(rows[i].status) = rankB(rows[j].status) =>
                    ~TupleLess(rows[i].cs_ts_ist, rows[j].cs_ts_ist)

\* the mapping table every request of Spec comes with (CsvMain, uploaded or
\* in the data directory), read as a table: the trimmed designer and
\* merchandiser cells of the first data row of each PID
TableMain ==
    << [pid |-> P_123456, designer |-> N_Asha, merch |-> N_RaviKumar],
       [pid |-> P_654321, designer |-> N_Bela, merch |-> << >>] >>

\* C6: every row of a report whose PID is in a data row of the mapping table
\* carries the designer and the merchandiser of the first such data row, in
\* every generation, and the upload generation counts a reported PID that
\* has one of the two as matched.
C6_RowsCarryMapping ==
    Reported =>
        /\ \A i \in 1..Len(rows) : \A e \in 1..Len(TableMain) :
              rows[i].pid = TableMain[e].pid =>
                /\ rows[i].designer = TableMain[e].designer
                /\ rows[i].assigned_merch = TableMain[e].merch
        /\ (/\ variant = "upload"
            /\ \E i \in 1..Len(rows) : \E e \in 1..Len(TableMain) :
                  /\ rows[i].pid = TableMain[e].pid
                  /\ TableMain[e].designer # << >> \/ TableMain[e].merch # << >>)
           => response.matchedPidCount > 0

\* handler h has called loadMappingOnce
Entered(h) == pc[h] \in {"awaiting", "done"} /\ observed[h].promise # 0

\* handler h has continued past the await
Continued(h) == pc[h] = "done" /\ observed[h].promise # 0

\* C7: whatever the interleaving of the handlers, the body of the load runs
\* at most once; every caller of loadMappingOnce gets the promise of that
\* one load and every handler past the await sees the Map that load
\* assigned.
C7_LoadAtMostOnce ==
    /\ loadCount <= 1
    /\ \A h \in DOMAIN pc :
          Entered(h) =>
            /\ loadCount = 1
            /\ observed[h].promise = MAPPING_READY.id
    /\ \A g, h \in DOMAIN pc :
          (Entered(g) /\ Entered(h)) => observed[g].promise = observed[h].promise
    /\ \A g, h \in DOMAIN pc :
          (Continued(g) /\ Continued(h)) =>
            /\ observed[g].map = observed[h].map
            /\ observed[g].map = PID_MAP.id

\* every handler called loadMappingOnce, the later ones while the first was
\* still at its await, all continued, and the load ran once
C7_Witness ==
    /\ Cardinality(DOMAIN pc) >= 2
    /\ \A h \in DOMAIN pc : Continued(h) /\ observed[h].map = PID_MAP.id
    /\ loadCount = 1
    /\ PID_MAP.entries # << >>

\* the load fails: the directory is missing or a dump file cannot be read
LoadFails == ~dataDir.exists \/ loadThrows(dataDir)

\* C8: when the load fails its promise still resolves, a handler past the
\* await finds PID_MAP an empty Map, a well-formed request gets a report
\* (never a server error) whose designer and assigned_merch are empty, and
\* no later request loads again.
C8_FailedLoadGivesEmptyMap ==
    LoadFails =>
        /\ loadCount <= 1
        /\ MAPPING_READY.id # 0 => MAPPING_READY.state = "resolved"
        /\ \A h \in DOMAIN pc :
              Continued(h) => (PID_MAP.id # 0 /\ PID_MAP.entries = << >>)
        /\ response.status # HttpServerError
        /\ req.cutoffDate.kind = "date" => Reported
        /\ Reported =>
              /\ response.mappingCount = 0
              /\ \A i \in 1..Len(rows) :
                    rows[i].designer = << >> /\ rows[i].assigned_merch = << >>

\* a dump file of the directory cannot be read (the one before it can);
\* every handler continued, the last one reported rows, the load ran once
C8_Witness ==
    /\ dataDir = DirLocked
    /\ \A h \in DOMAIN pc : Continued(h)
    /\ loadCount = 1
    /\ Reported
    /\ rows # << >>
    /\ PID_MAP.entries = << >>

\* the instant the request's cutoffDate stands for
CutoffUsed == cutoffOf(req.cutoffDate)

\* the timestamp the running generation reads from line i of the chat
ChatTs(i) == LineTs(variant # "upload", req.chatText[i])

\* the messages of all timelines
TimelineMessages ==
    UNION {{timelines[k].messages[a] : a \in 1..Len(timelines[k].messages)} :
           k \in 1..Len(timelines)}

\* C9: every message handed to the timeline builder, and so every message
\* of a timeline, has a timestamp strictly greater than the cutoff instant
\* and comes from a chat line whose timestamp is a valid instant; a line
\* whose timestamp is the cutoff, earlier, or no instant gives no message.
C9_RetainedAfterCutoff ==
    Reported =>
        /\ \A m \in {msgs[k] : k \in 1..Len(msgs)} \cup TimelineMessages :
              /\ m.ts > CutoffUsed.t
              /\ ChatTs(m.line).valid
              /\ m.ts = ChatTs(m.line).t
        /\ \A i \in 1..Len(req.chatText) :
              (~ChatTs(i).valid \/ ChatTs(i).t <= CutoffUsed.t) =>
                  \A m \in {msgs[k] : k \in 1..Len(msgs)} \cup TimelineMessages : m.line # i

\* a chat with a line at the cutoff instant, a line whose time is no instant
\* and a later line: only the later line is retained
C9_Witness ==
    /\ Reported
    /\ Len(msgs) = 1
    /\ TimelineMessages # {}
    /\ \E i \in 1..Len(req.chatText) : ChatTs(i).valid /\ ChatTs(i).t = CutoffUsed.t
    /\ \E i \in 1..Len(req.chatText) :
         req.chatText[i].shape = "android" /\ ~ChatTs(i).valid

\* the PIDs a text mentions
Mentions(text, pid) == \E n \in 1..Len(extractPids(text)) : extractPids(text)[n] = pid

\* C10: every timeline is non-empty and in ascending order of ts, messages
\* of one ts in the order of their lines in the chat; each of its messages
\* mentions its PID, and each retained message that mentions a PID is in
\* the timeline of that PID exactly once.
C10_TimelinesStableChronological ==
    Reported =>
        /\ \A k \in 1..Len(timelines) :
              LET arr == timelines[k].messages
              IN  /\ arr # << >>
                  /\ \A a, b \in 1..Len(arr) :
                        a < b =>
                          /\ arr[a].ts <= arr[b].ts
                          /\ arr[a].ts = arr[b].ts => arr[a].line < arr[b].line
                  /\ \A a \in 1..Len(arr) : Mentions(arr[a].text, timelines[k].pid)
        /\ \A j, k \in 1..Len(timelines) : timelines[j].pid = timelines[k].pid => j = k
        /\ \A i \in 1..Len(msgs) : \A n \in 1..Len(extractPids(msgs[i].text)) :
              \E k \in 1..Len(timelines) :
                  /\ timelines[k].pid = extractPids(msgs[i].text)[n]
                  /\ Cardinality({a \in 1..Len(timelines[k].messages) :
                                     timelines[k].messages[a] = msgs[i]}) = 1

\* a timeline holds two messages of one minute in the order of the chat,
\* one of them naming the PID twice, and a message that the sort moved
\* ahead of a line written before it
C10_Witness ==
    /\ Reported
    /\ \E k \in 1..Len(timelines) :
         LET arr == timelines[k].messages
         IN  /\ \E a, b \in 1..Len(arr) :
                  /\ a < b /\ arr[a].ts = arr[b].ts /\ arr[a].line < arr[b].line
                  /\ arr[a].text = LineP2.text
             /\ \E c, d \in 1..Len(arr) : c < d /\ arr[c].line > arr[d].line

\* C11: the CSV text rendered from a row set, parsed by parseCsvRobust of
\* the same generation, gives the header row followed by one record per
\* row with the cells of that row, whatever commas, double quotes, newlines
\* and carriage returns the cells hold.
C11_CsvRoundTrip ==
    \A h \in DOMAIN pc :
        pc[h] = "reparsed" => parsed = << HeadersOf(variant) >> \o rows

\* the date, the hour in 24-hour form and the minute a chat line states:
\* the five fields of the string YYYY-MM-DD HH:MM
StatedClock(ln) ==
    << IF ln.yLen = 2 THEN ln.y + 2000 ELSE ln.y,
       ln.mo,
       ln.d,
       IF toLowerCase(ln.ampm) = << "p", "m" >> /\ ln.hh < 12 THEN ln.hh + 12
       ELSE IF toLowerCase(ln.ampm) = << "a", "m" >> /\ ln.hh = 12 THEN 0
       ELSE ln.hh,
       ln.mm >>

\* the rendered timestamps of row i that are not the empty string
StampsOf(i) ==
    {rows[i].cs_ts_ist}
    \cup (IF variant = "upload" THEN {rows[i].first_cs_ts_ist} ELSE {})
    \cup (IF variant = "v1" THEN {rows[i].merch_ts_ist} ELSE {})

\* C12: every timestamp string of a report row shows the date, hour and
\* minute stated by a chat line of that row's PID, the wall clock at +05:30,
\* whatever the time zone of the server is.
C12_StampsShowStatedClock ==
    Reported =>
        \A i \in 1..Len(rows) : \A st \in StampsOf(i) \ {<< >>} :
            \E k \in 1..Len(timelines) :
                /\ timelines[k].pid = rows[i].pid
                /\ \E a \in 1..Len(timelines[k].messages) :
                      st = StatedClock(req.chatText[timelines[k].messages[a].line])

\* the character before or after the text, or a character that is no
\* letter, digit or underscore
NoWordChar(t, i) == i < 1 \/ i > Len(t) \/ ~IsWordChar(t[i])

\* a word boundary of the regular expression lies before index i
EdgeBefore(t, i) == NoWordChar(t, i - 1) # NoWordChar(t, i)

\* six digits start at index p
SixDigitsAt(t, p) ==
    /\ p >= 1
    /\ p + 5 <= Len(t)
    /\ \A k \in p..(p + 5) : t[k] \in DigitChars

\* the text from index a up to b - 1 is white space around at most one ":"
\* or "-"
LabelGap(t, a, b) ==
    \E c \in a..b :
        \A k \in a..(b - 1) :
            IF k = c THEN t[k] \in {":", "-", " "} ELSE t[k] = " "

\* a label pid, in any case, starts a word and leads up to index p
LabelBefore(t, p) ==
    \E a \in 1..(p - 3) :
        /\ toLowerCase(SubSeq(t, a, a + 2)) = << "p", "i", "d" >>
        /\ EdgeBefore(t, a)
        /\ LabelGap(t, a + 3, p)

\* index p starts a token of exactly six digits: a word boundary after it,
\* and before it a word boundary or a pid label
TokenAt(t, p) ==
    /\ SixDigitsAt(t, p)
    /\ EdgeBefore(t, p + 6)
    /\ EdgeBefore(t, p) \/ LabelBefore(t, p)

\* the indices at which pid stands in t as such a token
TokenPlaces(t, pid) == {p \in 1..Len(t) : TokenAt(t, p) /\ SubSeq(t, p, p + 5) = pid}

FirstPlace(t, pid) == CHOOSE p \in TokenPlaces(t, pid) : \A q \in TokenPlaces(t, pid) : p <= q

\* C13: extractPids returns only tokens of exactly six digits that stand in
\* the body between word boundaries (or after a pid label), each once, in
\* the order in which they first stand in the body; the body 1234567 gives
\* no PID.
C13_OnlyExactSixDigitTokens ==
    \A h \in DOMAIN pc :
        pc[h] = "extracted" =>
            /\ \A n \in 1..Len(found) : TokenPlaces(body, found[n]) # {}
            /\ \A n, m \in 1..Len(found) :
                  n < m => /\ found[n] # found[m]
                           /\ FirstPlace(body, found[n]) < FirstPlace(body, found[m])
            /\ body = P_123456 \o K_Seven => found = << >>

\* a body with a run of seven digits and a PID of its own: the PID alone is
\* returned
C13_Witness ==
    /\ \E h \in DOMAIN pc : pc[h] = "extracted"
    /\ \E p \in 1..Len(body) : \A k \in 0..6 : p + k <= Len(body) /\ body[p + k] \in DigitChars
    /\ found = << P_654321 >>

\* the positive whole numbers of minutes the SLA of a request may stand for:
\* the default of the policy when slaMinutes is absent, the number itself
\* when it is one or more, and otherwise a positive default, the least SLA
\* or the default of the policy
SlaChoices(dflt) ==
    IF req.slaMinutes.kind = "absent" THEN {dflt}
    ELSE IF req.slaMinutes.kind = "int" /\ req.slaMinutes.v >= 1 THEN {req.slaMinutes.v}
    ELSE {1, dflt}

\* C14: the classifier works with a positive whole number of minutes, 60
\* (Policy A) or 120 (Policy B) when slaMinutes is absent and a positive
\* default when it is zero, negative, empty or no number, so a timeline with
\* an unanswered query is Open - Breached exactly when its age is more than
\* that SLA.
C14_SlaIsPositiveNumber ==
    Reported =>
        /\ PolicyB =>
              \E d \in SlaChoices(DefaultSlaB) :
                  \A k \in 1..Len(timelines) :
                      LET arr == timelines[k].messages
                          pid == timelines[k].pid
                      IN  (QueryTimes(arr) # {} /\ ~AnsweredLater(arr, pid)) =>
                            \A i \in RowsFor(pid) :
                                rows[i].status = StatusBreached
                                    <=> req.now - LatestQueryTs(arr) > d * MsPerMinute
        /\ variant = "upload" =>
              \E d \in SlaChoices(DefaultSlaA) :
                  \A k \in 1..Len(timelines) :
                      LET arr == timelines[k].messages
                          pid == timelines[k].pid
                      IN  ~HasReply(arr) =>
                            (\E i \in RowsFor(pid) : rows[i].status = StatusBreached)
                                <=> req.now - arr[1].ts > d * MsPerMinute

\* the timelines whose PID the Map in use gives a designer or a merchandiser
MappedTimelines ==
    {k \in 1..Len(timelines) :
        \E e \in 1..Len(PID_MAP.entries) :
            /\ PID_MAP.entries[e].pid = timelines[k].pid
            /\ PID_MAP.entries[e].designer # << >> \/ PID_MAP.entries[e].merch # << >>}

\* C15: Policy A, every row summarizeRows returns is Open - Breached, the
\* rows are in descending order of first_cs_ts_ist alone, and
\* matchedPidCount counts the mapped timelines whether or not they got a row.
C15_OnlyBreachedRows ==
    \A h \in DOMAIN pc :
        pc[h] = "summarized" =>
            /\ \A i \in 1..Len(rows) : rows[i].status = StatusBreached
            /\ \A i, j \in 1..Len(rows) :
                  i < j => ~TupleLess(rows[i].first_cs_ts_ist, rows[j].first_cs_ts_ist)
            /\ response.matchedPidCount = Cardinality(MappedTimelines)

\* a mapped timeline was answered in time and got no row, another one is
\* reported: matchedPidCount is more than the number of rows
C15_Witness ==
    /\ \E h \in DOMAIN pc : pc[h] = "summarized"
    /\ Len(rows) >= 1
    /\ response.matchedPidCount > Len(rows)
    /\ \E k \in 1..Len(timelines) :
         /\ HasReply(timelines[k].messages)
         /\ RowsFor(timelines[k].pid) = {}

=============================================================================
